---- MODULE Spec2Model ----
(***************************************************************************)
(* Model of the basket / order / payment core of the shop backend.         *)
(*                                                                         *)
(*   basket    rows of the `basket` table (basket/models.py), a bag so     *)
(*             that two rows for one (user, product) are representable     *)
(*   session   the guest visitor's session: the "basket" key and who is    *)
(*             logged in on it                                             *)
(*   cache     the key/value cache behind get_basket                       *)
(*   last      history variable: the last cart / order operation, its      *)
(*             arguments and the state it started from                     *)
(*   ops       number of requests handled so far                           *)
(*   stock     Product.count and Product.sold_goods of every product       *)
(*   orders    the `orders` table, each order with its purchased lines     *)
(*   email     User.email of every user                                    *)
(*   pay       the process_payment invocations in progress, one per        *)
(*             request thread, with their uncommitted writes               *)
(*   delivery  the live DeliveryCondition record                           *)
(***************************************************************************)
EXTENDS Integers, Sequences, FiniteSets, Bags, TLC

Users == {"u1", "u2"}
Sessions == {"s1"}
Products == {1, 2}
Anon == "anon"
Workers == {"w1", "w2"}
\* product ids sent by a client that no catalog row has
UnknownIds == {3}
Emails == {"", "a", "b"}
Filled == {"", "x"}

\* largest quantity passed to one add / remove request
MaxAdd == 2
\* number of requests handled in one behaviour
MaxOps == 4
\* largest stock of a product
MaxStock == 2
\* largest number of lines in one POST /orders
MaxLines == 2
\* number of orders created in one behaviour
MaxOrders == 1

VARIABLES basket, session, cache, last, ops, stock, orders, email, pay,
          delivery

cartVars == <<basket, session, cache>>
orderVars == <<stock, orders, email, pay, delivery>>
vars == <<basket, session, cache, last, ops, stock, orders, email, pay,
          delivery>>

(***************************************************************************)
(* Conversions between a product id and the session's string key.          *)
(***************************************************************************)
ProductKeys == {"1", "2"}

\* str(request.data["id"])
StrOfId(p) == CASE p = 1 -> "1" [] p = 2 -> "2"

\* the ORM's coercion of the session key back to Basket.product_id
IdOfStr(k) == CASE k = "1" -> 1 [] k = "2" -> 2

(***************************************************************************)
(* Table helpers.                                                          *)
(***************************************************************************)
Row(u, p, c) == [user |-> u, product |-> p, count |-> c]

\* Basket.objects.filter(user=user)
FilterUser(b, u) == [r \in {x \in DOMAIN b : x.user = u} |-> b[r]]

\* Basket.objects.filter(user=user, product_id=p)
FilterUserProduct(b, u, p) ==
    [r \in {x \in DOMAIN b : x.user = u /\ x.product = p} |-> b[r]]

\* Basket.objects.filter(product_id=p)
FilterProduct(b, p) == [r \in {x \in DOMAIN b : x.product = p} |-> b[r]]

RECURSIVE SumCounts(_, _)
SumCounts(b, S) ==
    IF S = {} THEN 0
    ELSE LET r == CHOOSE x \in S : TRUE
         IN r.count * b[r] + SumCounts(b, S \ {r})

\* number of rows of (u, p) and their summed quantity
NumLines(b, u, p) == BagCardinality(FilterUserProduct(b, u, p))
Qty(b, u, p) == SumCounts(b, DOMAIN FilterUserProduct(b, u, p))

OneRow(r) == SetToBag({r})

(***************************************************************************)
(* Cache: key -> [hit, val].  Keys are user ids and session keys.          *)
(***************************************************************************)
\* f"orders_{user.id}", the key GET /orders reads
OrdersKey(u) == CASE u = "u1" -> "orders_1" [] u = "u2" -> "orders_2"

\* f"orders_{request.user}": str(user) is the username
OrdersUserKey(u) == CASE u = "u1" -> "orders_u1" [] u = "u2" -> "orders_u2"

CacheKeys ==
    Users \cup Sessions \cup {OrdersKey(u) : u \in Users}
          \cup {OrdersUserKey(u) : u \in Users}
Miss == [hit |-> FALSE, val |-> EmptyBag]

CacheDelete(c, k) == [c EXCEPT ![k] = Miss]

\* cache.get_or_set(key, default): the default is stored only on a miss
CacheGetOrSet(c, k, v) ==
    IF c[k].hit THEN c ELSE [c EXCEPT ![k] = [hit |-> TRUE, val |-> v]]

(***************************************************************************)
(* BasketService: the cart of an authenticated user (table `basket`).      *)
(***************************************************************************)
\* get_basket: read through the cache entry basket_{user.id}
GetBasket(c, b, u) == CacheGetOrSet(c, u, FilterUser(b, u))

\* BasketAdd with the found row's count replaced instead of increased
BasketAdd_Overwrite(b, u, p, q) ==
    LET m == FilterUserProduct(b, u, p)
    IN IF BagCardinality(m) = 1
       THEN LET r == CHOOSE x \in DOMAIN m : TRUE
            IN (b (-) OneRow(r)) (+) OneRow(Row(u, p, q))
       ELSE IF BagCardinality(m) = 0
            THEN b (+) OneRow(Row(u, p, q))
            ELSE b

\* add: Basket.objects.get(user, product_id), count += n, save; on
\* ObjectDoesNotExist create the row.  MultipleObjectsReturned is swallowed
\* by the return inside finally and changes no row.
BasketAdd(b, u, p, q) ==
    LET m == FilterUserProduct(b, u, p)
    IN IF BagCardinality(m) = 1
       THEN LET r == CHOOSE x \in DOMAIN m : TRUE
            IN (b (-) OneRow(r)) (+) OneRow(Row(u, p, r.count + q))
       ELSE IF BagCardinality(m) = 0
            THEN b (+) OneRow(Row(u, p, q))
            ELSE b

\* delete: Basket.objects.get(product_id=...) has no user filter; it raises
\* unless exactly one row of the whole table has the product.
BasketDeleteRaises(b, p) == BagCardinality(FilterProduct(b, p)) # 1

\* BasketDelete that saves the row whatever its new count
BasketDelete_KeepsRow(b, p, q) ==
    LET m == FilterProduct(b, p)
        r == CHOOSE x \in DOMAIN m : TRUE
    IN IF BasketDeleteRaises(b, p) THEN b
       ELSE (b (-) OneRow(r)) (+) OneRow(Row(r.user, p, r.count - q))

BasketDelete(b, p, q) ==
    LET m == FilterProduct(b, p)
        r == CHOOSE x \in DOMAIN m : TRUE
    IN IF BasketDeleteRaises(b, p) THEN b
       ELSE IF r.count - q > 0
            THEN (b (-) OneRow(r)) (+) OneRow(Row(r.user, p, r.count - q))
            ELSE b (-) OneRow(r)

\* clear: Basket.objects.filter(user=user).delete()
BasketClear(b, u) == [r \in {x \in DOMAIN b : x.user # u} |-> b[r]]

(***************************************************************************)
(* BasketSessionService: the guest cart, a dict under session["basket"].   *)
(***************************************************************************)
EmptyDict == [k \in {} |-> 0]
NoBasket == [user |-> Anon, has |-> FALSE, basket |-> EmptyDict]

DictGet(d, k) == IF k \in DOMAIN d THEN d[k] ELSE 0
DictSet(d, k, v) == [x \in DOMAIN d \cup {k} |-> IF x = k THEN v ELSE d[x]]
DictDel(d, k) == [x \in DOMAIN d \ {k} |-> d[x]]

\* request.session.get("basket", False) is truthy
HasRecords(ss) == ss.has /\ DOMAIN ss.basket # {}

\* check_key: create the empty mapping when the key is absent or empty
CheckKey(ss) ==
    IF HasRecords(ss) THEN ss ELSE [ss EXCEPT !.has = TRUE, !.basket = EmptyDict]

\* the list of Basket(product, count) objects built from the session
GuestRecords(ss) ==
    SetToBag({Row(Anon, IdOfStr(k), ss.basket[k]) : k \in DOMAIN ss.basket})

\* get_basket of the guest backend: filled from the session on a cache miss,
\* and only when the session holds records
GuestGetBasket(c, ss, key) ==
    IF c[key].hit \/ ~HasRecords(ss) THEN c
    ELSE [c EXCEPT ![key] = [hit |-> TRUE, val |-> GuestRecords(ss)]]

\* add: += count when the key holds a truthy record, else set it
SessionAdd(ss, p, q) ==
    LET s1 == CheckKey(ss)
        k == StrOfId(p)
    IN IF DictGet(s1.basket, k) # 0
       THEN [s1 EXCEPT !.basket = DictSet(s1.basket, k, s1.basket[k] + q)]
       ELSE [s1 EXCEPT !.basket = DictSet(s1.basket, k, q)]

\* delete: request.session["basket"] raises KeyError when the key is absent
SessionDeleteRaises(ss) == ~ss.has

\* a missing record is only logged (no save, no cache clear)
SessionDeleteFound(ss, p) == DictGet(ss.basket, StrOfId(p)) # 0

SessionDelete(ss, p, q) ==
    LET k == StrOfId(p)
        left == DictGet(ss.basket, k) - q
    IN IF ~SessionDeleteFound(ss, p) THEN ss
       ELSE IF left <= 0
            THEN [ss EXCEPT !.basket = DictDel(ss.basket, k)]
            ELSE [ss EXCEPT !.basket = DictSet(ss.basket, k, left)]

(***************************************************************************)
(* BasketService.merger: fold the guest cart into the user's rows.         *)
(***************************************************************************)
\* Basket.objects.get(user, product_id) raises MultipleObjectsReturned,
\* which merger does not catch
MergeOneRaises(b, u, p) == BagCardinality(FilterUserProduct(b, u, p)) > 1

\* MergeOne with the found row's count replaced by the guest's
MergeOne_Overwrite(b, u, p, q) ==
    LET m == FilterUserProduct(b, u, p)
    IN IF BagCardinality(m) = 1
       THEN LET r == CHOOSE x \in DOMAIN m : TRUE
            IN (b (-) OneRow(r)) (+) OneRow(Row(u, p, q))
       ELSE b (+) OneRow(Row(u, p, q))

MergeOne(b, u, p, q) ==
    LET m == FilterUserProduct(b, u, p)
    IN IF BagCardinality(m) = 1
       THEN LET r == CHOOSE x \in DOMAIN m : TRUE
            IN (b (-) OneRow(r)) (+) OneRow(Row(u, p, r.count + q))
       ELSE b (+) OneRow(Row(u, p, q))

\* the loop over records.items(); it stops at the first raise
RECURSIVE MergeLoop(_, _, _, _)
MergeLoop(b, u, d, keys) ==
    IF keys = {} THEN [basket |-> b, raised |-> FALSE]
    ELSE LET k == CHOOSE x \in keys : \A y \in keys : IdOfStr(x) <= IdOfStr(y)
         IN IF MergeOneRaises(b, u, IdOfStr(k))
            THEN [basket |-> b, raised |-> TRUE]
            ELSE MergeLoop(MergeOne(b, u, IdOfStr(k), d[k]), u, d, keys \ {k})

Merger(b, ss, u) ==
    IF HasRecords(ss) THEN MergeLoop(b, u, ss.basket, DOMAIN ss.basket)
    ELSE [basket |-> b, raised |-> FALSE]

\* MergerSession that drops the "basket" key whatever the session holds
MergerSession_AlwaysDeletes(ss, u, raised) ==
    [user |-> u, has |-> FALSE, basket |-> EmptyDict]

\* del request.session["basket"], reached only when the loop completed
MergerSession(ss, u, raised) ==
    IF HasRecords(ss) /\ ~raised
    THEN [user |-> u, has |-> FALSE, basket |-> EmptyDict]
    ELSE [ss EXCEPT !.user = u]

\* cache.delete(basket_{user.id}), in the branch that merged records
MergerCache(c, ss, u, raised) ==
    IF HasRecords(ss) /\ ~raised THEN CacheDelete(c, u) ELSE c

(***************************************************************************)
(* History of the last operation.                                          *)
(***************************************************************************)
\* op, owner, product and q are the request; pre is the owner's quantity of
\* the product before it ran.  For merge, q and pre are the guest's and the
\* user's total quantities before it ran.  chain says that the request
\* before was the same op for the same owner and product; q1 and pre0 are
\* then that request's q and pre.
Hist(op, owner, p, q, pre, raised) ==
    LET chain == op \in {"add", "guest_add"} /\ last.op = op
                 /\ last.owner = owner /\ last.product = p
    IN [op |-> op, owner |-> owner, product |-> p, q |-> q, pre |-> pre,
        raised |-> raised, chain |-> chain,
        q1 |-> IF chain THEN last.q ELSE 0,
        pre0 |-> IF chain THEN last.pre ELSE 0]

InitHist ==
    [op |-> "init", owner |-> Anon, product |-> 0, q |-> 0, pre |-> 0,
     raised |-> FALSE, chain |-> FALSE, q1 |-> 0, pre0 |-> 0]

GuestQty(ss, p) == DictGet(ss.basket, StrOfId(p))

RECURSIVE SumOver(_, _)
SumOver(f, S) ==
    IF S = {} THEN 0
    ELSE LET x == CHOOSE y \in S : TRUE IN f[x] + SumOver(f, S \ {x})

UserTotal(b, u) == SumCounts(b, DOMAIN FilterUser(b, u))
GuestTotal(ss) == SumOver(ss.basket, DOMAIN ss.basket)

(***************************************************************************)
(* Cart actions: one per request handler of BasketView and the login view. *)
(***************************************************************************)
\* one more request handled
Tick == ops < MaxOps /\ ops' = ops + 1

\* login() cycles the session key: no entry exists under the new key
LoginCache(c, s) == [c EXCEPT ![s] = Miss]

\* GET /basket, authenticated
Get(u) ==
    /\ Tick
    /\ UNCHANGED orderVars
    /\ cache' = GetBasket(cache, basket, u)
    /\ last' = Hist("get", u, 0, 0, 0, FALSE)
    /\ UNCHANGED <<basket, session>>

\* POST /basket, authenticated
Add(u, p, q) ==
    /\ Tick
    /\ UNCHANGED orderVars
    /\ basket' = BasketAdd(basket, u, p, q)
    /\ cache' = GetBasket(CacheDelete(cache, u), basket', u)
    /\ last' = Hist("add", u, p, q, Qty(basket, u, p), FALSE)
    /\ UNCHANGED session

\* DELETE /basket, authenticated
Delete(u, p, q) ==
    /\ Tick
    /\ UNCHANGED orderVars
    /\ basket' = BasketDelete(basket, p, q)
    /\ cache' = IF BasketDeleteRaises(basket, p) THEN cache
                ELSE GetBasket(CacheDelete(cache, u), basket', u)
    /\ last' = Hist("delete", u, p, q, Qty(basket, u, p),
                    BasketDeleteRaises(basket, p))
    /\ UNCHANGED session

\* BasketService.clear(user)
Clear(u) ==
    /\ Tick
    /\ UNCHANGED orderVars
    /\ basket' = BasketClear(basket, u)
    /\ cache' = CacheDelete(cache, u)
    /\ last' = Hist("clear", u, 0, 0, UserTotal(basket, u), FALSE)
    /\ UNCHANGED session

\* GET /basket, guest
GuestGet(s) ==
    /\ Tick
    /\ UNCHANGED orderVars
    /\ session[s].user = Anon
    /\ cache' = GuestGetBasket(cache, session[s], s)
    /\ last' = Hist("guest_get", s, 0, 0, 0, FALSE)
    /\ UNCHANGED <<basket, session>>

\* POST /basket, guest
GuestAdd(s, p, q) ==
    /\ Tick
    /\ UNCHANGED orderVars
    /\ session[s].user = Anon
    /\ session' = [session EXCEPT ![s] = SessionAdd(session[s], p, q)]
    /\ cache' = GuestGetBasket(CacheDelete(cache, s), session'[s], s)
    /\ last' = Hist("guest_add", s, p, q, GuestQty(session[s], p), FALSE)
    /\ UNCHANGED basket

\* DELETE /basket, guest
GuestDelete(s, p, q) ==
    /\ Tick
    /\ UNCHANGED orderVars
    /\ session[s].user = Anon
    /\ IF SessionDeleteRaises(session[s])
       THEN UNCHANGED <<session, cache>>
       ELSE /\ session' = [session EXCEPT ![s] = SessionDelete(session[s], p, q)]
            /\ cache' = IF SessionDeleteFound(session[s], p)
                        THEN GuestGetBasket(CacheDelete(cache, s), session'[s], s)
                        ELSE GuestGetBasket(cache, session'[s], s)
    /\ last' = Hist("guest_delete", s, p, q, GuestQty(session[s], p),
                    SessionDeleteRaises(session[s]))
    /\ UNCHANGED basket

\* POST /sign-in (and /sign-up) on a guest session: login, then merger
Login(s, u) ==
    /\ Tick
    /\ UNCHANGED orderVars
    /\ session[s].user = Anon
    /\ LET m == Merger(basket, session[s], u)
       IN /\ basket' = m.basket
          /\ session' = [session EXCEPT ![s] = MergerSession(session[s], u, m.raised)]
          /\ cache' = LoginCache(MergerCache(cache, session[s], u, m.raised), s)
          /\ last' = Hist("merge", u, 0, GuestTotal(session[s]),
                          UserTotal(basket, u), m.raised)

\* POST /sign-out: logout() flushes the session
Logout(s) ==
    /\ Tick
    /\ UNCHANGED orderVars
    /\ session[s].user # Anon
    /\ session' = [session EXCEPT ![s] = NoBasket]
    /\ last' = Hist("logout", s, 0, 0, 0, FALSE)
    /\ UNCHANGED <<basket, cache>>

(***************************************************************************)
(* Orders (order/models.py).  Order.status is stored as the choice code.   *)
(***************************************************************************)
Drafting == 1
Placed == 2
Unpaid == 3
ConfirmingPayment == 4
Paid == 5
Shipping == 6
PaymentFailed == 7

\* Product.price of the catalog's products
Price == [p \in Products |-> 10 * p]

\* the sale items: product 2 is on sale
SalePrice == [p \in {2} |-> 15]

\* Product.current_price: the sale price while a sale item is active
CurrentPrice(p) == IF p \in DOMAIN SalePrice THEN SalePrice[p] ELSE Price[p]

\* Basket.current_price: int(product.current_price * count)
BasketPrice(p, c) == IF p \in Products THEN CurrentPrice(p) * c ELSE 0

\* one entry of the list posted to /orders, as BasketSerializer validates it:
\* the client posts the lines that GET /basket serialised
CartLine(p, c, pc) ==
    [product |-> p, count |-> c, product_count |-> pc,
     current_price |-> BasketPrice(p, c)]
CartLines ==
    {CartLine(p, c, pc) : p \in Products \cup UnknownIds, c \in 1..MaxAdd,
                          pc \in 0..MaxStock}
CartData == UNION {[1..n -> CartLines] : n \in 1..MaxLines}

\* the clamp of create: the posted product_count bounds the posted count
ClampCount(line) ==
    IF line.count > line.product_count THEN line.product_count ELSE line.count

\* PurchasedProduct(order, product_id, count, current_price)
Purchased(line) ==
    [product |-> line.product, count |-> ClampCount(line),
     current_price |-> line.current_price]

\* sum(product.current_price * product.count for product in order.products)
RECURSIVE GoodsTotal(_)
GoodsTotal(lines) ==
    IF lines = <<>> THEN 0
    ELSE Head(lines).current_price * Head(lines).count + GoodsTotal(Tail(lines))

NewRecords(data) == [i \in 1..Len(data) |-> Purchased(data[i])]

\* bulk_create fails on a product id without a row (foreign key) and on a
\* negative count (PositiveIntegerField)
BulkCreateRaises(records) ==
    \E i \in 1..Len(records) :
        records[i].product \notin Products \/ records[i].count < 0

\* the snapshot fields of a new order: name null, the amounts default 0
NoSnapshot == [name |-> "", cost |-> 0, threshold |-> 0, is_express |-> 0]

\* dtype is Order.delivery (0 for null), cond says that the foreign key
\* delivery_condition is set, snap are the delivery_condition_* fields
NewOrder(u) ==
    [user |-> u, status |-> Drafting, lines |-> <<>>, dtype |-> 0,
     cond |-> FALSE, snap |-> NoSnapshot]

\* OrderCreate with the cart cleared before the lines are written
OrderCreate_ClearsFirst(os, b, c, u, data) ==
    LET records == NewRecords(data)
        raised == BulkCreateRaises(records)
    IN [orders |-> Append(os, IF raised THEN NewOrder(u)
                              ELSE [NewOrder(u) EXCEPT !.lines = records]),
        basket |-> BasketClear(b, u),
        cache |-> CacheDelete(c, u),
        raised |-> raised]

\* OrderService.create: Order.objects.create, bulk_create, BasketService.clear
OrderCreate(os, b, c, u, data) ==
    LET records == NewRecords(data)
        raised == BulkCreateRaises(records)
    IN [orders |-> Append(os, IF raised THEN NewOrder(u)
                              ELSE [NewOrder(u) EXCEPT !.lines = records]),
        basket |-> IF raised THEN b ELSE BasketClear(b, u),
        cache |-> IF raised THEN c ELSE CacheDelete(c, u),
        raised |-> raised]

(***************************************************************************)
(* OrderService.update: confirmation of an order.                          *)
(***************************************************************************)
UserOrder == <<"u1", "u2">>

\* all_emails = {user.email: user for user in all_users}: the last user
\* with an email owns its key
EmailKnown(em, e) == \E u \in Users : em[u] = e
EmailOwner(em, e) ==
    LET is == {i \in 1..Len(UserOrder) : em[UserOrder[i]] = e}
    IN UserOrder[CHOOSE i \in is : \A j \in is : j <= i]

\* UpdateEmailRejects without the comparison of the two users
UpdateEmailRejects_Never(os, em, o, data) == FALSE

UpdateEmailRejects(os, em, o, data) ==
    EmailKnown(em, data.email) /\ os[o].user # EmailOwner(em, data.email)

\* an unknown email is saved on the order's user before the fields are checked
UpdateEmail(os, em, o, data) ==
    IF EmailKnown(em, data.email) THEN em
    ELSE [em EXCEPT ![os[o].user] = data.email]

RequiredFields == <<"fullName", "email", "phone", "city", "address">>
FieldMissing(data) == \E i \in 1..Len(RequiredFields) : data[RequiredFields[i]] = ""

\* the field named by the error of the loop over required_fields
FirstMissing(data) ==
    LET is == {i \in 1..Len(RequiredFields) : data[RequiredFields[i]] = ""}
    IN RequiredFields[CHOOSE i \in is : \A j \in is : i <= j]

\* the ValidationError update raises: the mismatch of the email's user, else
\* the first required field that is empty, else none
UpdateError(os, em, o, data) ==
    IF UpdateEmailRejects(os, em, o, data) THEN "mismatch"
    ELSE IF FieldMissing(data) THEN FirstMissing(data)
    ELSE "none"

UpdateRaises(os, em, o, data) == UpdateError(os, em, o, data) # "none"

UpdateStatus(st) == Placed

DeliveryTypes == {"express", "ordinary"}

\* the fields update writes before order.save(): the delivery type, the
\* snapshot of the live condition (only the fee of the chosen type) and the
\* status
UpdateOrder(ord, live, data) ==
    LET express == data.deliveryType = "express"
    IN [ord EXCEPT
          !.status = UpdateStatus(@),
          !.dtype = IF express THEN 2 ELSE 1,
          !.cond = TRUE,
          !.snap = [name |-> live.name,
                    cost |-> IF express THEN @.cost ELSE live.cost,
                    threshold |-> live.threshold,
                    is_express |-> IF express THEN live.is_express
                                   ELSE @.is_express]]

\* Order.total_cost read from the live condition instead of the snapshot
TotalCost_Live(ord, live) ==
    LET total == GoodsTotal(ord.lines)
    IN total + (IF ~ord.cond THEN 0
                ELSE IF live.is_express > 0 THEN live.is_express
                ELSE IF total < live.threshold THEN live.cost
                ELSE 0)

\* Order.total_cost; live is the record self.delivery_condition refers to,
\* of which only the presence is used
TotalCost(ord, live) ==
    LET total == GoodsTotal(ord.lines)
    IN total + (IF ~ord.cond THEN 0
                ELSE IF ord.snap.is_express > 0 THEN ord.snap.is_express
                ELSE IF total < ord.snap.threshold THEN ord.snap.cost
                ELSE 0)

\* the delivery component of total_cost
DeliveryCost(ord, live) == TotalCost(ord, live) - GoodsTotal(ord.lines)

\* confirmation forms that choose the ordinary delivery
ConfirmData ==
    [email : Emails, fullName : Filled, phone : Filled, city : Filled,
     address : Filled, deliveryType : {"ordinary"}]

\* filled-in confirmation forms with either delivery type
DeliveryData ==
    [email : {"a"}, fullName : {"x"}, phone : {"x"}, city : {"x"},
     address : {"x"}, deliveryType : DeliveryTypes]

\* the live condition and the records an administrator edits it to
DefaultCondition == [name |-> "std", cost |-> 5, threshold |-> 30, is_express |-> 7]

DeliveryConditions ==
    {DefaultCondition,
     [DefaultCondition EXCEPT !.name = "new"],
     [DefaultCondition EXCEPT !.cost = 6],
     [DefaultCondition EXCEPT !.threshold = 50],
     [DefaultCondition EXCEPT !.is_express = 0],
     [DefaultCondition EXCEPT !.is_express = 9]}

(***************************************************************************)
(* process_payment: one transaction under select_for_update on the order.  *)
(* http is the state of the request thread's POST /payment/{id}: "open"    *)
(* while the view runs, "202" once it has returned its response.           *)
(***************************************************************************)
Idle ==
    [pc |-> "idle", order |-> 0, idx |-> 0, status |-> 0,
     cur |-> [count |-> 0, sold_goods |-> 0], writes |-> EmptyDict,
     wrote |-> 0, alone |-> TRUE, result |-> "none", error |-> "none",
     http |-> "none"]

\* the order row is locked by a transaction in progress
Locked(o) == \E w \in Workers : pay[w].pc # "idle" /\ pay[w].order = o

\* a product row updated by another transaction that has not ended
RowLocked(w, p) ==
    \E x \in Workers \ {w} : pay[x].pc # "idle" /\ p \in DOMAIN pay[x].writes

\* item.product: the row as this transaction sees it
ReadProduct(st, writes, p) == IF p \in DOMAIN writes THEN writes[p] ELSE st[p]

\* Deduct without the sold_goods update
Deduct_CountOnly(row, q) == [count |-> row.count - q, sold_goods |-> row.sold_goods]

\* product.count -= item.count; product.sold_goods += item.count
Deduct(row, q) == [count |-> row.count - q, sold_goods |-> row.sold_goods + q]

\* product.save(): count is a PositiveIntegerField
SaveRaises(row) == row.count < 0

\* leaving the atomic block normally: the writes become the stored rows
CommitStock(st, writes) ==
    [p \in Products |-> IF p \in DOMAIN writes THEN writes[p] ELSE st[p]]

\* the saves of a payment run outside a transaction stay stored
RollbackStock_Keeps(st, writes) == writes

\* leaving the atomic block by an exception: nothing of it is stored
RollbackStock(st, writes) == st
RollbackStatus(old, new) == old

(***************************************************************************)
(* Order and payment actions.                                              *)
(***************************************************************************)
\* Order.objects.filter(user=user), by order id
UserOrders(os, u) == [o \in {x \in DOMAIN os : os[x].user = u} |-> os[o]]

\* GET /orders: read through the cache entry orders_{user.id}
GetOrders(u) ==
    /\ cache' = CacheGetOrSet(cache, OrdersKey(u), UserOrders(orders, u))
    /\ last' = Hist("get_orders", u, 0, 0, 0, FALSE)
    /\ UNCHANGED <<basket, session, ops, stock, orders, email, pay, delivery>>

\* POST /orders, and cache.delete of the orders key of the user's name
Create(u, data) ==
    /\ Len(orders) < MaxOrders
    /\ LET r == OrderCreate(orders, basket, cache, u, data)
       IN /\ orders' = r.orders
          /\ basket' = r.basket
          /\ cache' = CacheDelete(r.cache, OrdersUserKey(u))
          /\ last' = Hist("create", u, 0, Len(data), UserTotal(basket, u), r.raised)
    /\ UNCHANGED <<session, ops, stock, email, pay, delivery>>

\* POST /orders/{id}: OrderService.update, cache.delete of the orders key of
\* the requesting user's name, then BasketService.clear of the requesting user.  order.save() waits for a payment holding the row.
Update(u, o, data) ==
    /\ o \in DOMAIN orders
    /\ ~Locked(o)
    /\ LET raised == UpdateRaises(orders, email, o, data)
       IN /\ email' = IF UpdateEmailRejects(orders, email, o, data) THEN email
                      ELSE UpdateEmail(orders, email, o, data)
          /\ orders' = IF raised THEN orders
                       ELSE [orders EXCEPT ![o] = UpdateOrder(@, delivery, data)]
          /\ basket' = IF raised THEN basket ELSE BasketClear(basket, u)
          /\ cache' = IF raised THEN cache
                      ELSE CacheDelete(CacheDelete(cache, OrdersUserKey(u)), u)
          /\ last' = Hist("update", u, 0, o, UserTotal(basket, u), raised)
    /\ UNCHANGED <<session, ops, stock, pay, delivery>>

\* an administrator edits the DeliveryCondition record
EditDelivery(d) ==
    /\ d # delivery
    /\ delivery' = d
    /\ UNCHANGED <<basket, session, cache, last, ops, stock, orders, email, pay>>

\* POST /payment/{id} with invalid card fields
PayInvalid(o) ==
    /\ o \in DOMAIN orders
    /\ ~Locked(o)
    /\ orders' = [orders EXCEPT ![o].status = PaymentFailed]
    /\ last' = Hist("pay_invalid", Anon, 0, o, 0, FALSE)
    /\ UNCHANGED <<basket, session, cache, ops, stock, email, pay, delivery>>

\* POST /payment/{id} with valid card fields: select_for_update().get,
\* status = 4, save (inside the transaction)
PayStart(w, o) ==
    /\ pay[w].pc = "idle"
    /\ pay[w].http # "open"
    /\ o \in DOMAIN orders
    /\ ~Locked(o)
    /\ pay' = [x \in Workers |->
                 IF x = w
                 THEN [Idle EXCEPT !.pc = "run", !.order = o, !.idx = 1,
                                   !.http = "open",
                                   !.status = ConfirmingPayment,
                                   !.alone = \A y \in Workers : pay[y].pc = "idle"]
                 ELSE IF pay[x].pc # "idle" THEN [pay[x] EXCEPT !.alone = FALSE]
                      ELSE pay[x]]
    /\ UNCHANGED <<basket, session, cache, last, ops, stock, orders, email, delivery>>

\* product = item.product
PayRead(w) ==
    /\ pay[w].pc = "run"
    /\ pay[w].idx <= Len(orders[pay[w].order].lines)
    /\ LET item == orders[pay[w].order].lines[pay[w].idx]
       IN pay' = [pay EXCEPT ![w].pc = "read",
                             ![w].cur = ReadProduct(stock, pay[w].writes, item.product)]
    /\ UNCHANGED <<basket, session, cache, last, ops, stock, orders, email, delivery>>

\* the end of the transaction by an exception: rollback, return False
Failed(w, why) ==
    /\ pay' = [pay EXCEPT ![w] = [Idle EXCEPT !.order = pay[w].order,
                                              !.wrote = pay[w].wrote,
                                              !.alone = pay[w].alone,
                                              !.http = pay[w].http,
                                              !.result = "false",
                                              !.error = why]]
    /\ stock' = RollbackStock(stock, CommitStock(stock, pay[w].writes))
    /\ orders' = [orders EXCEPT ![pay[w].order].status =
                                   RollbackStatus(@, pay[w].status)]

\* product.count -= item.count; product.sold_goods += item.count;
\* product.save()
PayWrite(w) ==
    /\ pay[w].pc = "read"
    /\ LET item == orders[pay[w].order].lines[pay[w].idx]
           row == Deduct(pay[w].cur, item.count)
       IN IF SaveRaises(row)
          THEN Failed(w, "integrity")
          ELSE /\ ~RowLocked(w, item.product)
               /\ pay' = [pay EXCEPT ![w].pc = "run",
                                     ![w].idx = @ + 1,
                                     ![w].wrote = @ + 1,
                                     ![w].writes = DictSet(@, item.product, row)]
               /\ UNCHANGED <<stock, orders>>
    /\ UNCHANGED <<basket, session, cache, last, ops, email, delivery>>

\* status = 5, save, commit, return True
PayCommit(w) ==
    /\ pay[w].pc = "run"
    /\ pay[w].idx > Len(orders[pay[w].order].lines)
    /\ stock' = CommitStock(stock, pay[w].writes)
    /\ orders' = [orders EXCEPT ![pay[w].order].status = Paid]
    /\ pay' = [pay EXCEPT ![w] = [Idle EXCEPT !.order = pay[w].order,
                                              !.wrote = pay[w].wrote,
                                              !.alone = pay[w].alone,
                                              !.http = pay[w].http,
                                              !.result = "true"]]
    /\ UNCHANGED <<basket, session, cache, last, ops, email, delivery>>

\* return Response(status=202), the statement after the call of
\* process_payment
Respond(w) ==
    /\ pay[w].pc = "idle"
    /\ pay[w].http = "open"
    /\ pay' = [pay EXCEPT ![w].http = "202"]
    /\ UNCHANGED <<basket, session, cache, last, ops, stock, orders, email, delivery>>

\* any statement of the transaction raises (database error, lost connection)
PayAbort(w) ==
    /\ pay[w].pc # "idle"
    /\ Failed(w, "aborted")
    /\ UNCHANGED <<basket, session, cache, last, ops, email, delivery>>

(***************************************************************************)
(* Specifications.                                                         *)
(***************************************************************************)
NoOrders ==
    /\ stock = [p \in Products |-> [count |-> MaxStock, sold_goods |-> 0]]
    /\ orders = <<>>
    /\ email = [u \in Users |-> ""]
    /\ pay = [w \in Workers |-> Idle]
    /\ delivery = DefaultCondition

CartInit ==
    /\ basket = EmptyBag
    /\ session = [s \in Sessions |-> NoBasket]
    /\ cache = [k \in CacheKeys |-> Miss]
    /\ last = InitHist
    /\ ops = 0
    /\ NoOrders

CartNext ==
    \/ \E u \in Users : Get(u)
    \/ \E u \in Users, p \in Products, q \in 1..MaxAdd : Add(u, p, q)
    \/ \E u \in Users, p \in Products, q \in 1..MaxAdd : Delete(u, p, q)
    \/ \E u \in Users : Clear(u)
    \/ \E s \in Sessions : GuestGet(s)
    \/ \E s \in Sessions, p \in Products, q \in 1..MaxAdd : GuestAdd(s, p, q)
    \/ \E s \in Sessions, p \in Products, q \in 1..MaxAdd : GuestDelete(s, p, q)
    \/ \E s \in Sessions, u \in Users : Login(s, u)
    \/ \E s \in Sessions : Logout(s)

\* the carts of users who each added one item or none
OrderInitBaskets ==
    {SetToBag({Row(u, 1, 1) : u \in S}) : S \in SUBSET Users}

OrderInit ==
    /\ basket \in OrderInitBaskets
    /\ session = [s \in Sessions |-> NoBasket]
    /\ cache = [k \in CacheKeys |-> Miss]
    /\ last = InitHist
    /\ ops = 0
    /\ stock \in [Products -> {[count |-> c, sold_goods |-> 0] : c \in 1..MaxStock}]
    /\ orders = <<>>
    /\ email = [u \in Users |-> ""]
    /\ pay = [w \in Workers |-> Idle]
    /\ delivery = DefaultCondition

OrderNext ==
    \/ \E u \in Users, data \in CartData : Create(u, data)
    \/ \E u \in Users, o \in 1..MaxOrders, data \in ConfirmData : Update(u, o, data)
    \/ \E o \in 1..MaxOrders : PayInvalid(o)

\* carts posted with the stock the client saw when nothing was sold yet
PayCarts ==
    {d \in CartData : \A i \in 1..Len(d) :
        d[i].product \in Products /\ d[i].product_count = MaxStock}

\* a confirmation form with every field filled in
PayConfirm == {d \in ConfirmData : ~FieldMissing(d)}

PayInit ==
    /\ basket = EmptyBag
    /\ session = [s \in Sessions |-> NoBasket]
    /\ cache = [k \in CacheKeys |-> Miss]
    /\ last = InitHist
    /\ ops = 0
    /\ NoOrders

PayNext ==
    \/ \E u \in Users, data \in PayCarts : Create(u, data)
    \/ \E u \in Users, o \in 1..MaxOrders, data \in PayConfirm : Update(u, o, data)
    \/ \E o \in 1..MaxOrders : PayInvalid(o)
    \/ \E w \in Workers, o \in 1..MaxOrders : PayStart(w, o)
    \/ \E w \in Workers : PayRead(w)
    \/ \E w \in Workers : PayWrite(w)
    \/ \E w \in Workers : PayCommit(w)
    \/ \E w \in Workers : PayAbort(w)
    \/ \E w \in Workers : Respond(w)

\* the emails users hold after registration and profile edits: none, or one
\* that no other user has
RegisteredEmails ==
    {em \in [Users -> Emails] :
        \A u, v \in Users : (u # v /\ em[u] # "") => em[u] # em[v]}

\* carts of one line
ConfirmCarts == {d \in PayCarts : Len(d) = 1}

ConfirmInit ==
    /\ basket = EmptyBag
    /\ session = [s \in Sessions |-> NoBasket]
    /\ cache = [k \in CacheKeys |-> Miss]
    /\ last = InitHist
    /\ ops = 0
    /\ stock = [p \in Products |-> [count |-> MaxStock, sold_goods |-> 0]]
    /\ orders = <<>>
    /\ email \in RegisteredEmails
    /\ pay = [w \in Workers |-> Idle]
    /\ delivery = DefaultCondition

ConfirmNext ==
    \/ \E u \in Users : GetOrders(u)
    \/ \E u \in Users, data \in ConfirmCarts : Create(u, data)
    \/ \E u \in Users, o \in 1..MaxOrders, data \in ConfirmData : Update(u, o, data)
    \/ \E o \in 1..MaxOrders : PayInvalid(o)

DeliveryInit ==
    /\ basket = EmptyBag
    /\ session = [s \in Sessions |-> NoBasket]
    /\ cache = [k \in CacheKeys |-> Miss]
    /\ last = InitHist
    /\ ops = 0
    /\ NoOrders

DeliveryNext ==
    \/ \E u \in Users, data \in ConfirmCarts : Create(u, data)
    \/ \E u \in Users, o \in 1..MaxOrders, data \in DeliveryData : Update(u, o, data)
    \/ \E d \in DeliveryConditions : EditDelivery(d)

\* one shopper with one product: every cart, order and payment request
StockCarts == {<<CartLine(1, 1, MaxStock)>>}
StockConfirm == {d \in DeliveryData : d.deliveryType = "ordinary"}

\* the request thread that pays
StockWorkers == {"w1"}

StockInit ==
    /\ basket = EmptyBag
    /\ session = [s \in Sessions |-> NoBasket]
    /\ cache = [k \in CacheKeys |-> Miss]
    /\ last = InitHist
    /\ ops = 0
    /\ NoOrders

StockNext ==
    \/ Get("u1")
    \/ Add("u1", 1, 1)
    \/ Delete("u1", 1, 1)
    \/ Clear("u1")
    \/ \E s \in Sessions : GuestGet(s)
    \/ \E s \in Sessions : GuestAdd(s, 1, 1)
    \/ \E s \in Sessions : GuestDelete(s, 1, 1)
    \/ \E s \in Sessions : Login(s, "u1")
    \/ \E s \in Sessions : Logout(s)
    \/ GetOrders("u1")
    \/ \E data \in StockCarts : Create("u1", data)
    \/ \E o \in 1..MaxOrders, data \in StockConfirm : Update("u1", o, data)
    \/ \E o \in 1..MaxOrders : PayInvalid(o)
    \/ \E w \in StockWorkers, o \in 1..MaxOrders : PayStart(w, o)
    \/ \E w \in StockWorkers : PayRead(w)
    \/ \E w \in StockWorkers : PayWrite(w)
    \/ \E w \in StockWorkers : PayCommit(w)
    \/ \E w \in StockWorkers : PayAbort(w)
    \/ \E w \in StockWorkers : Respond(w)

\* the order create stores for a posted cart
OrderOf(u, data) == [NewOrder(u) EXCEPT !.lines = NewRecords(data)]

\* two orders of one line each, created by the two users
TwoOrders ==
    {<<OrderOf("u1", d1), OrderOf("u2", d2)>> : d1, d2 \in ConfirmCarts}

ConcurrentInit ==
    /\ basket = EmptyBag
    /\ session = [s \in Sessions |-> NoBasket]
    /\ cache = [k \in CacheKeys |-> Miss]
    /\ last = InitHist
    /\ ops = 0
    /\ stock = [p \in Products |-> [count |-> MaxStock, sold_goods |-> 0]]
    /\ orders \in TwoOrders
    /\ email = [u \in Users |-> ""]
    /\ pay = [w \in Workers |-> Idle]
    /\ delivery = DefaultCondition

ConcurrentNext ==
    \/ \E w \in Workers, o \in DOMAIN orders : PayStart(w, o)
    \/ \E w \in Workers : PayRead(w)
    \/ \E w \in Workers : PayWrite(w)
    \/ \E w \in Workers : PayCommit(w)
    \/ \E w \in Workers : PayAbort(w)
    \/ \E w \in Workers : Respond(w)

SpecCart == CartInit /\ [][CartNext]_vars

SpecOrder == OrderInit /\ [][OrderNext]_vars

SpecPay == PayInit /\ [][PayNext]_vars

SpecConfirm == ConfirmInit /\ [][ConfirmNext]_vars

SpecDelivery == DeliveryInit /\ [][DeliveryNext]_vars

SpecStock == StockInit /\ [][StockNext]_vars

SpecConcurrent == ConcurrentInit /\ [][ConcurrentNext]_vars

(***************************************************************************)
(* Properties of the cart (checked under SpecCart).                        *)
(***************************************************************************)
\* C7: add(owner, p, q1) followed by add(owner, p, q2), on the persisted and
\* on the session cart, leaves exactly one line for (owner, p), and its
\* quantity is the quantity before the first add plus q1 + q2.
C7_AddTwice ==
    /\ (last.op = "add" /\ last.chain) =>
          /\ NumLines(basket, last.owner, last.product) = 1
          /\ Qty(basket, last.owner, last.product) = last.pre0 + last.q1 + last.q
    /\ (last.op = "guest_add" /\ last.chain) =>
          /\ session[last.owner].has
          /\ StrOfId(last.product) \in DOMAIN session[last.owner].basket
          /\ GuestQty(session[last.owner], last.product)
                = last.pre0 + last.q1 + last.q

\* two adds in a row to a line that existed before them
C7_Witness == last.op = "add" /\ last.chain /\ last.pre0 > 0

\* C8: remove(owner, p, q) on an existing line of quantity c deletes the
\* line when q >= c and leaves it with c - q when 0 < q < c, on both
\* backends and whatever the other owners' carts hold.
C8_RemoveDeletesOrDecrements ==
    /\ (last.op = "delete" /\ last.pre > 0) =>
          IF last.q >= last.pre
          THEN NumLines(basket, last.owner, last.product) = 0
          ELSE Qty(basket, last.owner, last.product) = last.pre - last.q
    /\ (last.op = "guest_delete" /\ last.pre > 0) =>
          IF last.q >= last.pre
          THEN StrOfId(last.product) \notin DOMAIN session[last.owner].basket
          ELSE GuestQty(session[last.owner], last.product) = last.pre - last.q

\* C9: after any sequence of add, remove, merge and clear with positive
\* quantities there is at most one cart line per (owner, product) and every
\* cart line, persisted or in a session, has a quantity > 0.
C9_OneLinePositive ==
    /\ \A u \in Users, p \in Products : NumLines(basket, u, p) <= 1
    /\ \A r \in DOMAIN basket : r.count > 0
    /\ \A s \in Sessions : \A k \in DOMAIN session[s].basket :
          session[s].basket[k] > 0

\* a remove that left its line in the cart with a smaller quantity
C9_Witness ==
    /\ last.op = "delete" /\ ~last.raised /\ last.pre > last.q
    /\ Qty(basket, last.owner, last.product) = last.pre - last.q

\* C10: merging a non-empty guest cart adds, for every product, the guest's
\* quantity to the user's quantity, leaves the user's lines of products that
\* are not in the guest cart as they were, and removes the guest cart from
\* the session.
C10_MergeAddsGuestCart ==
    [][\A s \in Sessions, u \in Users :
          (Login(s, u) /\ HasRecords(session[s])) =>
             /\ \A p \in Products :
                   /\ Qty(basket', u, p)
                         = Qty(basket, u, p) + GuestQty(session[s], p)
                   /\ NumLines(basket', u, p) <= 1
                   /\ GuestQty(session[s], p) = 0 =>
                         FilterUserProduct(basket', u, p)
                            = FilterUserProduct(basket, u, p)
             /\ ~session'[s].has]_vars

\* a merge of a non-empty guest cart into a cart that had lines
C10_Witness == last.op = "merge" /\ ~last.raised /\ last.q > 0 /\ last.pre > 0

(***************************************************************************)
(* Properties of payment (checked under SpecPay).                          *)
(***************************************************************************)
Min(a, b) == IF a <= b THEN a ELSE b

\* the summed quantity of the lines of one product
RECURSIVE LineTotal(_, _)
LineTotal(lines, p) ==
    IF lines = <<>> THEN 0
    ELSE (IF Head(lines).product = p THEN Head(lines).count ELSE 0)
         + LineTotal(Tail(lines), p)

RECURSIVE OrdersTotal(_, _)
OrdersTotal(os, p) ==
    IF os = <<>> THEN 0
    ELSE LineTotal(Head(os).lines, p) + OrdersTotal(Tail(os), p)

\* C1: however process_payment is invoked on one order, again or
\* concurrently, each purchased line is deducted from the stock and added
\* to sold_goods at most once: no product has sold more than the orders'
\* lines of it together.
C1_DeductedAtMostOnce ==
    \A p \in Products :
        /\ stock[p].sold_goods <= OrdersTotal(orders, p)
        /\ MaxStock - stock[p].count <= OrdersTotal(orders, p)

\* the status graph Drafting -> Placed -> Unpaid -> ConfirmingPayment ->
\* Paid -> Shipping, ConfirmingPayment -> PaymentFailed, Placed -> Placed
Forward(s, t) ==
    \/ s < t /\ t <= Shipping
    \/ s <= ConfirmingPayment /\ t = PaymentFailed
    \/ s = Placed /\ t = Placed

\* C2: across creation, confirmation, process_payment and the
\* invalid-payment path the committed status of an order only changes
\* along the status graph and never moves back.
C2_StatusOnlyForward ==
    [][\A o \in DOMAIN orders :
          orders'[o].status # orders[o].status =>
             Forward(orders[o].status, orders'[o].status)]_vars

\* a process_payment transaction ends by its commit and returns True
CommitsTrue ==
    \E w \in Workers :
        pay[w].pc # "idle" /\ pay'[w].pc = "idle" /\ pay'[w].result = "true"

\* it ends by an exception
EndsRaised(w) == pay[w].pc # "idle" /\ pay'[w].pc = "idle" /\ pay'[w].error # "none"

\* C3: when a step of process_payment raises after the order was locked,
\* it returns False and the committed status of the order and the count and
\* sold_goods of every product are as before the call: no step of a payment
\* other than its commit changes them.
C3_FailedPaymentChangesNothing ==
    [][/\ (pay' # pay /\ ~CommitsTrue) => (stock' = stock /\ orders' = orders)
       /\ \A w \in Workers : EndsRaised(w) => pay'[w].result = "false"]_vars

\* a payment that failed after it had deducted a line in its transaction
C3_Witness ==
    \E w \in Workers :
        pay[w].pc = "idle" /\ pay[w].result = "false" /\ pay[w].wrote >= 1

\* the end of a process_payment that ran with no other payment in progress
\* and without a database failure
EndsAlone(w) ==
    /\ pay[w].pc # "idle"
    /\ pay'[w].pc = "idle"
    /\ pay[w].alone
    /\ pay'[w].error # "aborted"

\* it returned True, took the order through ConfirmingPayment to Paid and
\* moved the lines' quantities from count to sold_goods
Succeeded(w) ==
    LET o == pay[w].order
    IN /\ pay'[w].result = "true"
       /\ pay[w].status = ConfirmingPayment
       /\ orders'[o].status = Paid
       /\ \A p \in Products :
             /\ stock'[p].count = stock[p].count - LineTotal(orders[o].lines, p)
             /\ stock'[p].sold_goods
                   = stock[p].sold_goods + LineTotal(orders[o].lines, p)

\* C4 as stated: process_payment on an order whose every line quantity is at
\* most the product's stock returns True, passes ConfirmingPayment to Paid
\* and moves every line's quantity from count to sold_goods.
C4_EveryLineWithinStock ==
    [][\A w \in Workers :
          (/\ EndsAlone(w)
           /\ \A i \in 1..Len(orders[pay[w].order].lines) :
                 orders[pay[w].order].lines[i].count
                    <= stock[orders[pay[w].order].lines[i].product].count)
          => Succeeded(w)]_vars

\* C4 amended: the same when, for every product, the summed quantity of the
\* order's lines of it is at most the product's stock.
C4_EveryProductWithinStock ==
    [][\A w \in Workers :
          (/\ EndsAlone(w)
           /\ \A p \in Products :
                 LineTotal(orders[pay[w].order].lines, p) <= stock[p].count)
          => Succeeded(w)]_vars

\* a committed payment of an order with two lines of one product
C4_Witness ==
    \E w \in Workers :
        /\ pay[w].pc = "idle" /\ pay[w].result = "true" /\ pay[w].wrote = 2
        /\ orders[pay[w].order].status = Paid
        /\ orders[pay[w].order].lines[1].product
              = orders[pay[w].order].lines[2].product

\* C14: PaymentFailed is terminal: once the committed status of an order is
\* PaymentFailed, no update, process_payment or payment request changes it.
C14_PaymentFailedTerminal ==
    [][\A o \in DOMAIN orders :
          orders[o].status = PaymentFailed
             => orders'[o].status = PaymentFailed]_vars

\* C15: when an exception ends the payment transaction of process_payment
\* for an existing order, the order's status afterwards is PaymentFailed.
C15_FailureRecorded ==
    [][\A w \in Workers :
          EndsRaised(w) => orders'[pay[w].order].status = PaymentFailed]_vars

\* C16: for valid input POST /payment/{id} hands the payment over and
\* answers 202 without waiting for it: while process_payment for the
\* request is still running, the view's return of the 202 response is a
\* step that can be taken.
C16_RespondsWithoutWaiting ==
    \A w \in Workers :
        (pay[w].http = "open" /\ pay[w].pc # "idle") => ENABLED Respond(w)

(***************************************************************************)
(* Properties of order creation (checked under SpecOrder).                 *)
(***************************************************************************)
\* C5: create persists, for every posted cart line, a purchased line whose
\* quantity is min(requested quantity, Product.count when create runs).
C5_ClampedToStock ==
    [][\A u \in Users, data \in CartData :
          (Create(u, data) /\ ~last'.raised) =>
             LET lines == orders'[Len(orders')].lines
             IN /\ Len(lines) = Len(data)
                /\ \A i \in 1..Len(data) :
                      lines[i].count
                         = Min(data[i].count, stock[data[i].product].count)]_vars

\* the sum over the lines of the product's unit price times the quantity
RECURSIVE UnitTotal(_)
UnitTotal(lines) ==
    IF lines = <<>> THEN 0
    ELSE CurrentPrice(Head(lines).product) * Head(lines).count
         + UnitTotal(Tail(lines))

\* C21: the price create stores on each purchased line is the product's unit
\* current price (the sale price while a sale is active), so the order's
\* goods total is the sum over the lines of unit price times quantity.
C21_UnitPriceStored ==
    [][(Len(orders') = Len(orders) + 1 /\ ~last'.raised) =>
          LET lines == orders'[Len(orders')].lines
          IN /\ \A i \in 1..Len(lines) :
                   lines[i].current_price = CurrentPrice(lines[i].product)
             /\ GoodsTotal(lines) = UnitTotal(lines)]_vars

\* C6: create clears the user's cart only after all purchased lines are
\* written; when writing them fails, create raises and the cart lines are
\* unchanged.
C6_CartClearedAfterLines ==
    [][Len(orders') = Len(orders) + 1 =>
          LET new == orders'[Len(orders')]
              u == last'.owner
          IN /\ last'.op = "create"
             /\ last'.raised => (basket' = basket /\ new.lines = <<>>)
             /\ ~last'.raised =>
                   /\ Len(new.lines) = last'.q
                   /\ FilterUser(basket', u) = EmptyBag
             /\ FilterUser(basket', u) # FilterUser(basket, u) =>
                   Len(new.lines) = last'.q]_vars

\* a create that failed while the user had lines in the cart
C6_Witness ==
    /\ last.op = "create" /\ last.raised /\ last.pre > 0
    /\ FilterUser(basket, last.owner) # EmptyBag

(***************************************************************************)
(* Properties of merge on an empty guest cart (checked under SpecCart).    *)
(***************************************************************************)
\* merger applied to a session without records: no raise, the rows, the
\* session's "basket" key and the cache as they were
MergeIsNoOp(b, ss, c, u) ==
    /\ Merger(b, ss, u) = [basket |-> b, raised |-> FALSE]
    /\ MergerSession(ss, u, FALSE).has = ss.has
    /\ MergerSession(ss, u, FALSE).basket = ss.basket
    /\ MergerCache(c, ss, u, FALSE) = c

\* C11: merge on a session that holds no guest cart (key absent or empty
\* mapping) does not raise and changes neither the user's cart lines, the
\* session's guest cart nor the cache; a second merge right after a
\* completed merge is therefore a no-op.
C11_MergeOfNothing ==
    [][\A s \in Sessions, u \in Users :
          Login(s, u) =>
             /\ ~HasRecords(session[s]) =>
                   /\ MergeIsNoOp(basket, session[s], cache, u)
                   /\ ~last'.raised
                   /\ basket' = basket
                   /\ session'[s].has = session[s].has
                   /\ session'[s].basket = session[s].basket
                   /\ \A k \in Users : cache'[k] = cache[k]
             /\ (HasRecords(session[s]) /\ ~last'.raised) =>
                   MergeIsNoOp(basket', session'[s], cache', u)]_vars

\* a merge on a session whose guest cart mapping exists but is empty, for a
\* user whose cart lines are cached
C11_Witness ==
    /\ last.op = "merge" /\ last.q = 0 /\ ~last.raised /\ last.pre > 0
    /\ cache[last.owner].hit
    /\ \E s \in Sessions : session[s].user = last.owner /\ session[s].has

(***************************************************************************)
(* Properties of confirmation (checked under SpecConfirm).                 *)
(***************************************************************************)
\* C12: update with a submitted email that belongs to an existing user other
\* than the order's owner is rejected with a validation error, and the
\* order's owner, status and other fields (and every user's email) are
\* unchanged.
C12_ForeignEmailRejected ==
    [][\A u \in Users, o \in DOMAIN orders, data \in ConfirmData :
          (/\ last'.op = "update" /\ last'.owner = u /\ last'.q = o
           /\ \E v \in Users : v # orders[o].user /\ email[v] = data.email
           /\ Update(u, o, data))
          => /\ last'.raised
             /\ UpdateError(orders, email, o, data) # "none"
             /\ orders' = orders
             /\ email' = email]_vars

\* a rejected confirmation whose every field is filled in and whose email is
\* another user's
C12_Witness ==
    /\ last.op = "update" /\ last.raised
    /\ \E o \in DOMAIN orders, data \in PayConfirm :
          /\ o = last.q
          /\ UpdateError(orders, email, o, data) = "mismatch"
          /\ \E v \in Users : v # orders[o].user /\ email[v] = data.email
          /\ orders[o].status = Drafting

\* C13: update is rejected whenever one of fullName, email, phone, city,
\* address is empty, and the error names the first empty field in that
\* order, for every submitted email value, the empty one included.
C13_FirstMissingFieldNamed ==
    [][\A u \in Users, o \in DOMAIN orders, data \in ConfirmData :
          (/\ last'.op = "update" /\ last'.owner = u /\ last'.q = o
           /\ FieldMissing(data)
           /\ Update(u, o, data))
          => /\ last'.raised
             /\ UpdateError(orders, email, o, data) = FirstMissing(data)]_vars

\* C17: after every operation that creates or changes an order the cache
\* entry GET /orders reads for the user has been deleted: whenever an orders
\* cache entry of a user exists, it equals the user's stored orders.
C17_OrdersCacheCoherent ==
    \A u \in Users :
        cache[OrdersKey(u)].hit
           => cache[OrdersKey(u)].val = UserOrders(orders, u)

(***************************************************************************)
(* Properties of the cart's cache and of removing a line that is not       *)
(* there (checked under SpecCart).                                         *)
(***************************************************************************)
\* C18: after any sequence of get, add, remove, clear and merge by any
\* owners on either backend, a cached line list under an owner's basket key
\* equals the owner's current cart lines.
C18_BasketCacheCoherent ==
    /\ \A u \in Users :
          cache[u].hit => cache[u].val = FilterUser(basket, u)
    /\ \A s \in Sessions :
          (session[s].user = Anon /\ cache[s].hit)
             => cache[s].val = GuestRecords(session[s])

\* C19: on the session backend remove(owner, p, q) for a product without a
\* line in the guest cart does not raise and leaves the session unchanged,
\* also when the guest cart mapping was never created.
C19_GuestRemoveOfNothing ==
    [][\A s \in Sessions, p \in Products, q \in 1..MaxAdd :
          (GuestDelete(s, p, q) /\ GuestQty(session[s], p) = 0)
             => (~last'.raised /\ session' = session)]_vars

\* C20: on the persisted backend remove(owner, p, q) when the owner has no
\* line for p raises a not-found condition and changes no cart line of any
\* owner, whatever the other owners' carts hold.
C20_RemoveOfNothingRaises ==
    [][\A u \in Users, p \in Products, q \in 1..MaxAdd :
          (Delete(u, p, q) /\ NumLines(basket, u, p) = 0)
             => (last'.raised /\ basket' = basket)]_vars

(***************************************************************************)
(* Properties of the delivery snapshot (checked under SpecDelivery).       *)
(***************************************************************************)
\* C22: after an order was confirmed, no change of the live delivery
\* condition's name, cost, threshold or express fee changes the order's
\* snapshot fields or its total cost.
C22_SnapshotIndependent ==
    [][delivery' # delivery =>
          \A o \in DOMAIN orders :
             orders[o].cond =>
                /\ o \in DOMAIN orders'
                /\ orders'[o].snap = orders[o].snap
                /\ TotalCost(orders'[o], delivery') = TotalCost(orders[o], delivery)]_vars

\* a confirmed order with the ordinary delivery, charged the snapshot cost,
\* while the live record has another cost
C22_Witness ==
    \E o \in DOMAIN orders :
        /\ orders[o].cond /\ orders[o].dtype = 1
        /\ orders[o].snap.cost # delivery.cost
        /\ DeliveryCost(orders[o], delivery) = orders[o].snap.cost
        /\ orders[o].snap.cost > 0

\* C27: after every sequence of successful confirmations of an order the
\* delivery component of its total cost follows the delivery type chosen in
\* the latest one: the snapshot express fee for express; for the ordinary
\* delivery the snapshot cost when the goods total is below the snapshot
\* threshold, and 0 otherwise.
C27_DeliveryOfLatestType ==
    \A o \in DOMAIN orders :
        orders[o].cond =>
           DeliveryCost(orders[o], delivery)
              = IF orders[o].dtype = 2 THEN orders[o].snap.is_express
                ELSE IF GoodsTotal(orders[o].lines) < orders[o].snap.threshold
                     THEN orders[o].snap.cost
                     ELSE 0

(***************************************************************************)
(* Properties of the stock (checked under SpecStock and SpecPay).          *)
(***************************************************************************)
\* C23: Product.count and Product.sold_goods are changed only by a
\* committing process_payment: cart add, remove, clear and merge, order
\* create, order update and the invalid-payment path leave them unchanged.
C23_StockChangedOnlyByCommit ==
    [][/\ stock' # stock => CommitsTrue
       /\ last' # last => stock' = stock]_vars

\* a committed payment changed the stock after cart requests, a create and
\* a confirmation
C23_Witness ==
    /\ \E p \in Products : stock[p].sold_goods > 0
    /\ ops > 0
    /\ \E o \in DOMAIN orders : orders[o].cond /\ orders[o].status = Paid

(***************************************************************************)
(* Further properties of creation and confirmation (checked under          *)
(* SpecOrder and SpecConfirm).                                             *)
(***************************************************************************)
\* C24: every order produced by create has the status Placed right after
\* its creation; it is never observable in Drafting.
C24_CreatedPlaced ==
    [][Len(orders') = Len(orders) + 1
          => orders'[Len(orders')].status = Placed]_vars

\* C26: when update rejects, for the email of another user or for an empty
\* required field, no persistent state changes: the order and every user's
\* stored email are as before the call.
C26_RejectedUpdateChangesNothing ==
    [][(last'.op = "update" /\ last'.raised /\ last' # last)
          => (orders' = orders /\ email' = email)]_vars

\* C28: confirming an order leaves the requesting user's cart unchanged.
C28_ConfirmKeepsCart ==
    [][(last'.op = "update" /\ ~last'.raised /\ last' # last)
          => FilterUser(basket', last'.owner) = FilterUser(basket, last'.owner)]_vars

\* C29: update is not rejected for an email mismatch when the submitted
\* email is the order owner's own stored email, also when several users
\* have that stored email.
C29_OwnEmailAccepted ==
    [][\A u \in Users, o \in DOMAIN orders, data \in ConfirmData :
          (/\ last'.op = "update" /\ last'.owner = u /\ last'.q = o
           /\ data.email = email[orders[o].user]
           /\ Update(u, o, data))
          => UpdateError(orders, email, o, data) # "mismatch"]_vars

(***************************************************************************)
(* Properties of the stock under concurrent payments (checked under        *)
(* SpecConcurrent and SpecPay).                                            *)
(***************************************************************************)
\* the commit of worker w
Commits(w) == pay[w].pc # "idle" /\ pay'[w].pc = "idle" /\ pay'[w].result = "true"

\* C25: after any sequence of payments, concurrent payments of different
\* orders with the same product included, every product's count is >= 0,
\* and a payment with a line whose quantity exceeds the product's current
\* stock commits no deduction.
C25_NeverOversold ==
    [][/\ \A p \in Products : stock[p].count >= 0 /\ stock'[p].count >= 0
       /\ \A w \in Workers :
             Commits(w) =>
                \A i \in 1..Len(orders[pay[w].order].lines) :
                   LET item == orders[pay[w].order].lines[i]
                   IN item.count > stock[item.product].count
                         => stock' = stock]_vars

\* C30: across any sequence of payments, successful or failed, count +
\* sold_goods of every product stays equal to its initial value and
\* sold_goods never decreases.
C30_StockConserved ==
    [][\A p \in Products :
          /\ stock[p].count + stock[p].sold_goods = MaxStock
          /\ stock'[p].count + stock'[p].sold_goods = MaxStock
          /\ stock'[p].sold_goods >= stock[p].sold_goods]_vars

====
